---- MODULE Spec2Model ----
(***************************************************************************)
(* HostTree (packages/angular_devkit/schematics/src/tree/host-tree.ts):    *)
(* a Tree is an id, a CordHost overlay (_record) over a read-only backend, *)
(* and a directory cache.  branch() builds a new HostTree whose backend is *)
(* the parent's _record object; merge() replays the other tree's exported  *)
(* actions on this tree's overlay.                                         *)
(*                                                                         *)
(* The overlay (virtualFs.CordHost), its synchronous facade                *)
(* (SyncDelegateHost), SafeReadonlyHost, clean(), normalize() and the      *)
(* MergeStrategy flags live in @angular-devkit/core and ../interface and   *)
(* are modelled from sections 3, 4.1 and 6 of the specification.           *)
(***************************************************************************)
EXTENDS Integers, Sequences, FiniteSets, TLC

VARIABLES
    uniqueId,   \* let _uniqueId (host-tree.ts:47)
    id,         \* HostTree._id of every constructed tree
    back,       \* the backend handed to the constructor: 0 = the host backend, else a tree
    rec,        \* HostTree._record: the overlay's ordered record log, per tree
    base,       \* the files of the read-only host backend (path -> content)
    recorder,   \* the UpdateRecorder a caller holds, with the edits recorded in it
    dirCache,   \* HostTree._dirCache: the paths a HostDirEntry is cached for, per tree
    origin,     \* history: for every record of a tree, the tree whose mutation it stems from
    last        \* the last call made and how it ended

vars == <<uniqueId, id, back, rec, base, recorder, dirCache, origin, last>>

(* ------------------------------ bounds -------------------------------- *)
MaxTrees == 3    \* HostTree instances constructed
MaxRecs == 3     \* records held by all overlays together
MaxBranchRecs == 2  \* the same, where branches are mutated and never merged
MaxMergedRecs == 4  \* the same, once a merge has replayed a branch's records
MaxContent == 2  \* characters in the content a commitUpdate writes to a branch
MaxPatches == 3  \* edits recorded in one UpdateRecorder
MaxUpdatePatches == 1  \* the same, where the tree is mutated between begin and commit
MaxConflictTrees == 2  \* HostTree instances, where merges run under every allowance

(* ------------------------------ values -------------------------------- *)
\* null, as a value no content equals (contents are sequences of characters)
None == <<"null">>
Paths == {<<"a">>, <<"a", "b">>, <<"c">>, <<"c", "b">>}
\* what callers pass: a path that normalize() may still have to clean
RawPaths == {<<"a">>, <<"a", "b">>, <<"c">>, <<".", "c">>}
Contents == {<<"x">>, <<"y">>}
Trees == 1..MaxTrees
Alive == 1..uniqueId

\* normalize('/' + path): drops the "." segments
normalize(raw) == SelectSeq(raw, LAMBDA f : f # ".")
normalizePath(raw) == normalize(raw)

IsPrefix(d, p) == Len(d) < Len(p) /\ SubSeq(p, 1, Len(d)) = d
\* dirname(p): the directory a path lies in
dirname(p) == SubSeq(p, 1, Len(p) - 1)

(* ------------------------------ records ------------------------------- *)
CreateRec(p, c) == [kind |-> "create", path |-> p, to |-> None, content |-> c]
OverwriteRec(p, c) == [kind |-> "overwrite", path |-> p, to |-> None, content |-> c]
RenameRec(f, t) == [kind |-> "rename", path |-> f, to |-> t, content |-> None]
DeleteRec(p) == [kind |-> "delete", path |-> p, to |-> None, content |-> None]

(* ---------------- the overlay's resolved view (CordHost) -------------- *)
\* p is d or lies under d
AtOrUnder(d, p) == p = d \/ IsPrefix(d, p)
\* a path at or under directory "from", as it is named once "from" is renamed "to"
Moved(from, to, p) == to \o SubSeq(p, Len(from) + 1, Len(p))

\* Content of path p in tree t after the first k records of its log, over the
\* backend's current view: null when p is no file.  A Delete or Rename of a
\* directory takes the paths under it along.
RECURSIVE FileAt(_, _, _, _)
FileAt(rc, t, p, k) ==
    IF p \notin Paths THEN None
    ELSE IF k = 0
    THEN IF back[t] = 0 THEN base[p] ELSE FileAt(rc, back[t], p, Len(rc[back[t]]))
    ELSE LET r == rc[t][k] IN
         CASE r.kind \in {"create", "overwrite"} /\ r.path = p -> r.content
           [] r.kind = "delete" /\ AtOrUnder(r.path, p) -> None
           [] r.kind = "rename" /\ AtOrUnder(r.to, p) ->
                FileAt(rc, t, Moved(r.to, r.path, p), k - 1)
           [] r.kind = "rename" /\ AtOrUnder(r.path, p) /\ ~AtOrUnder(r.to, p) -> None
           [] OTHER -> FileAt(rc, t, p, k - 1)

CordRead(rc, t, p) == FileAt(rc, t, p, Len(rc[t]))
CordIsFile(rc, t, p) == CordRead(rc, t, p) # None
CordIsDirectory(rc, t, p) == \E q \in Paths : IsPrefix(p, q) /\ CordIsFile(rc, t, q)
CordExists(rc, t, p) == CordIsFile(rc, t, p) \/ CordIsDirectory(rc, t, p)

willCreate(rc, t, p) == \E i \in 1..Len(rc[t]) : rc[t][i].kind = "create" /\ rc[t][i].path = p
willOverwrite(rc, t, p) ==
    \E i \in 1..Len(rc[t]) : rc[t][i].kind = "overwrite" /\ rc[t][i].path = p
willRename(rc, t, p) == \E i \in 1..Len(rc[t]) : rc[t][i].kind = "rename" /\ rc[t][i].path = p
willDelete(rc, t, p) == \E i \in 1..Len(rc[t]) : rc[t][i].kind = "delete" /\ rc[t][i].path = p

records(rc, t) == rc[t]

(* -------------------- the overlay's mutations (CordHost) -------------- *)
Ok(rc) == [rc |-> rc, err |-> "ok"]
Fail(rc, e) == [rc |-> rc, err |-> e]
\* every mutation is one record appended at the end of the log
AppendRecord(rc, t, r) == [rc EXCEPT ![t] = Append(@, r)]

CordCreate(rc, t, p, c) ==
    IF CordExists(rc, t, p) THEN Fail(rc, "FileAlreadyExist")
    ELSE Ok(AppendRecord(rc, t, CreateRec(p, c)))
CordOverwrite(rc, t, p, c) ==
    IF ~CordExists(rc, t, p) THEN Fail(rc, "FileDoesNotExist")
    ELSE Ok(AppendRecord(rc, t, OverwriteRec(p, c)))
CordDelete(rc, t, p) ==
    IF ~CordExists(rc, t, p) THEN Fail(rc, "FileDoesNotExist")
    ELSE Ok(AppendRecord(rc, t, DeleteRec(p)))
CordRename(rc, t, f, to) ==
    IF ~CordExists(rc, t, f) THEN Fail(rc, "FileDoesNotExist")
    ELSE IF CordExists(rc, t, to) THEN Fail(rc, "FileAlreadyExist")
    ELSE Ok(AppendRecord(rc, t, RenameRec(f, to)))

(* --------------------------- HostTree: reads -------------------------- *)
\* exists(path): this._recordSync.isFile(normalized)
exists(rc, t, raw) == CordIsFile(rc, t, normalizePath(raw))
PathIsDirectory == <<"PathIsDirectoryException">>
\* get(path): PathIsDirectory, null, or the entry (its content)
get(rc, t, raw) ==
    LET p == normalizePath(raw) IN
    IF CordIsDirectory(rc, t, p) THEN PathIsDirectory
    ELSE IF ~CordExists(rc, t, p) THEN None
    ELSE CordRead(rc, t, p)
\* read(path): entry ? entry.content : null
read(rc, t, raw) == get(rc, t, raw)

\* what a caller can observe of a tree through read and exists, for every path
View(rc, t) == [p \in Paths |-> <<exists(rc, t, p), read(rc, t, p)>>]

(* ------------------- HostDirEntry and HostTree.visit ------------------ *)
PathIsFile == <<"PathIsFileException">>
\* the fragments a listing can hold, in the order the host lists them
Fragments == <<"a", "b", "c">>
join(dir, name) == dir \o <<name>>
\* this._host.list(path): the children of a directory
list(rc, t, dir) == SelectSeq(Fragments, LAMBDA name : CordExists(rc, t, join(dir, name)))
subdirs(rc, t, dir) ==
    SelectSeq(list(rc, t, dir), LAMBDA name : CordIsDirectory(rc, t, join(dir, name)))
subfiles(rc, t, dir) ==
    SelectSeq(list(rc, t, dir), LAMBDA name : CordIsFile(rc, t, join(dir, name)))

\* getDir(path): PathIsFile or the directory entry (its path), and the cache
\* as the call leaves it; an entry not cached yet is built on its parent's
RECURSIVE getDir(_, _, _, _)
getDir(rc, t, cache, raw) ==
    LET p == normalizePath(raw) IN
    IF CordIsFile(rc, t, p) THEN [entry |-> PathIsFile, cache |-> cache]
    ELSE IF p \in cache THEN [entry |-> p, cache |-> cache]
    ELSE IF p = dirname(p) THEN [entry |-> p, cache |-> cache \cup {p}]
    ELSE LET parent == getDir(rc, t, cache, dirname(p)) IN
         IF parent.entry = PathIsFile THEN parent
         ELSE [entry |-> p, cache |-> parent.cache \cup {p}]
\* DirEntry.dir(name) and DirEntry.file(name)
dir(rc, t, cache, entry, name) == getDir(rc, t, cache, join(entry, name))
file(rc, t, entry, name) == get(rc, t, join(entry, name))

\* a visitor: continues at every file but one, where it throws the cancel
\* token or another error
Visitor(stopAt, how) == [stopAt |-> stopAt, how |-> how]
NoVisitor == Visitor(None, "continue")
Outcome(visitor, p) == IF visitor.stopAt = p THEN visitor.how ELSE "continue"
Started(cache) == [visited |-> <<>>, status |-> "ok", cache |-> cache]

RECURSIVE EachFile(_, _, _, _, _, _)
RECURSIVE EachDir(_, _, _, _, _, _)
RECURSIVE RecurseDirsFirst(_, _, _, _, _)
RECURSIVE Recurse(_, _, _, _, _)
\* entry.subfiles.forEach(path => visitor(join(entry.path, path), entry.file(path)))
EachFile(rc, t, entry, files, visitor, sofar) ==
    IF files = <<>> THEN sofar
    ELSE LET p == join(entry, Head(files)) IN
         IF file(rc, t, entry, Head(files)) = PathIsDirectory
         THEN [sofar EXCEPT !.status = "PathIsDirectory"]
         ELSE LET seen == [sofar EXCEPT !.visited = Append(@, p)] IN
              IF Outcome(visitor, p) = "continue"
              THEN EachFile(rc, t, entry, Tail(files), visitor, seen)
              ELSE [seen EXCEPT !.status = Outcome(visitor, p)]
\* entry.subdirs.forEach(path => _recurse(entry.dir(path)))
EachDir(rc, t, entry, dirs, visitor, sofar) ==
    IF dirs = <<>> THEN sofar
    ELSE LET d == dir(rc, t, sofar.cache, entry, Head(dirs)) IN
         IF d.entry = PathIsFile
         THEN [sofar EXCEPT !.status = "PathIsFile", !.cache = d.cache]
         ELSE LET r == Recurse(rc, t, d.entry, visitor, [sofar EXCEPT !.cache = d.cache]) IN
              IF r.status # "ok" THEN r
              ELSE EachDir(rc, t, entry, Tail(dirs), visitor, r)
\* _recurse that descends into the subdirectories before it visits the files
RecurseDirsFirst(rc, t, entry, visitor, sofar) ==
    LET d == EachDir(rc, t, entry, subdirs(rc, t, entry), visitor, sofar) IN
    IF d.status # "ok" THEN d
    ELSE EachFile(rc, t, entry, subfiles(rc, t, entry), visitor, d)
\* _recurse(entry)
Recurse(rc, t, entry, visitor, sofar) ==
    LET f == EachFile(rc, t, entry, subfiles(rc, t, entry), visitor, sofar) IN
    IF f.status # "ok" THEN f
    ELSE EachDir(rc, t, entry, subdirs(rc, t, entry), visitor, f)

\* HostDirEntry.visit without the catch of the cancel token
entryVisitUncaught(rc, t, cache, entry, visitor) ==
    Recurse(rc, t, entry, visitor, Started(cache))
\* HostDirEntry.visit: _recurse(this), the cancel token caught
entryVisit(rc, t, cache, entry, visitor) ==
    LET r == Recurse(rc, t, entry, visitor, Started(cache)) IN
    IF r.status = "cancel" THEN [r EXCEPT !.status = "ok"] ELSE r
\* the root directory entry: getDir('/')
root(rc, t, cache) == getDir(rc, t, cache, <<>>)
\* HostTree.visit: this.root.visit(visitor)
visit(rc, t, cache, visitor) ==
    LET r == root(rc, t, cache) IN entryVisit(rc, t, r.cache, r.entry, visitor)

(* ------------------------ HostTree: mutations ------------------------- *)
\* create that writes whether or not the path exists
createAsWrite(rc, t, raw, c) ==
    LET p == normalizePath(raw) IN
    IF CordExists(rc, t, p) THEN CordOverwrite(rc, t, p, c)
    ELSE CordCreate(rc, t, p, c)
\* create that writes to the overlay the tree was branched from
createBackend(rc, t, raw, c) ==
    LET p == normalizePath(raw)
        target == IF back[t] = 0 THEN t ELSE back[t] IN
    IF CordExists(rc, t, p) THEN Fail(rc, "FileAlreadyExist")
    ELSE Ok(AppendRecord(rc, target, CreateRec(p, c)))
create(rc, t, raw, c) ==
    LET p == normalizePath(raw) IN
    IF CordExists(rc, t, p) THEN Fail(rc, "FileAlreadyExist")
    ELSE CordCreate(rc, t, p, c)
\* overwrite that skips the record when the content is the one already there
overwriteSkipSame(rc, t, raw, c) ==
    LET p == normalizePath(raw) IN
    IF ~CordExists(rc, t, p) THEN Fail(rc, "FileDoesNotExist")
    ELSE IF CordRead(rc, t, p) = c THEN Ok(rc)
    ELSE CordOverwrite(rc, t, p, c)
\* overwrite that reaches through to the backend tree's overlay
overwriteBackend(rc, t, raw, c) ==
    LET p == normalizePath(raw)
        target == IF back[t] = 0 THEN t ELSE back[t] IN
    IF ~CordExists(rc, t, p) THEN Fail(rc, "FileDoesNotExist")
    ELSE Ok(AppendRecord(rc, target, OverwriteRec(p, c)))
overwrite(rc, t, raw, c) ==
    LET p == normalizePath(raw) IN
    IF ~CordExists(rc, t, p) THEN Fail(rc, "FileDoesNotExist")
    ELSE CordOverwrite(rc, t, p, c)
\* delete that records the deletion without asking whether the path is there
deleteUnchecked(rc, t, raw) == Ok(AppendRecord(rc, t, DeleteRec(normalizePath(raw))))
delete(rc, t, raw) == CordDelete(rc, t, normalizePath(raw))
rename(rc, t, from, to) == CordRename(rc, t, normalizePath(from), normalizePath(to))

(* --------------------------- UpdateRecorder --------------------------- *)
InsertLeft(offset, text) == [kind |-> "insertLeft", offset |-> offset, text |-> text, length |-> 0]
InsertRight(offset, text) ==
    [kind |-> "insertRight", offset |-> offset, text |-> text, length |-> 0]
Remove(offset, length) == [kind |-> "remove", offset |-> offset, text |-> <<>>, length |-> length]

\* the texts of the given kind registered at an offset, in recorded order
RECURSIVE Inserted(_, _, _)
Inserted(patches, kind, offset) ==
    IF patches = <<>> THEN <<>>
    ELSE LET h == Head(patches) IN
         (IF h.kind = kind /\ h.offset = offset THEN h.text ELSE <<>>)
            \o Inserted(Tail(patches), kind, offset)

Removed(patches, offset) ==
    \E i \in 1..Len(patches) :
        /\ patches[i].kind = "remove"
        /\ patches[i].offset <= offset
        /\ offset < patches[i].offset + patches[i].length

\* apply(content): the walk of section 4.4, from the given offset to the end
RECURSIVE Walk(_, _, _)
Walk(content, patches, offset) ==
    IF offset > Len(content) THEN <<>>
    ELSE Inserted(patches, "insertLeft", offset)
         \o (IF offset < Len(content) /\ ~Removed(patches, offset)
             THEN <<content[offset + 1]>> ELSE <<>>)
         \o Inserted(patches, "insertRight", offset)
         \o Walk(content, patches, offset + 1)

\* apply that makes the edits one after the other, each on the result of the last
RECURSIVE applyInTurn(_, _)
applyInTurn(patches, content) ==
    IF patches = <<>> THEN content
    ELSE applyInTurn(Tail(patches), Walk(content, <<Head(patches)>>, 0))
apply(patches, content) == Walk(content, patches, 0)

\* a recorder as beginUpdate hands it out (UpdateRecorderBase), or a foreign one
Recorder(p, patches) == [base |-> TRUE, path |-> p, patches |-> patches]
ForeignRecorder == [base |-> FALSE, path |-> None, patches |-> <<>>]

\* beginUpdate(path): the entry's recorder, or the exception raised
beginUpdate(rc, t, raw) ==
    LET entry == get(rc, t, raw) IN
    IF entry = PathIsDirectory THEN [err |-> "PathIsDirectory", recorder |-> ForeignRecorder]
    ELSE IF entry = None THEN [err |-> "FileDoesNotExist", recorder |-> ForeignRecorder]
    ELSE [err |-> "ok", recorder |-> Recorder(normalizePath(raw), <<>>)]

\* commitUpdate that writes the content back without the recorder's edits
commitUpdateUnpatched(rc, t, record) ==
    IF record.base
    THEN LET entry == get(rc, t, record.path) IN
         IF entry = PathIsDirectory THEN Fail(rc, "PathIsDirectory")
         ELSE IF entry = None THEN Fail(rc, "ContentHasMutated")
         ELSE overwrite(rc, t, record.path, entry)
    ELSE Fail(rc, "InvalidUpdateRecord")
commitUpdate(rc, t, record) ==
    IF record.base
    THEN LET entry == get(rc, t, record.path) IN
         IF entry = PathIsDirectory THEN Fail(rc, "PathIsDirectory")
         ELSE IF entry = None THEN Fail(rc, "ContentHasMutated")
         ELSE overwrite(rc, t, record.path, apply(record.patches, entry))
    ELSE Fail(rc, "InvalidUpdateRecord")

(* ------------------------- HostTree: actions -------------------------- *)
Undefined == [kind |-> "undefined"]
\* the export with a rename's two paths exchanged
ActionOfSwapped(t, r) ==
    CASE r.kind = "create" ->
           [id |-> id[t], parent |-> 0, kind |-> "c", path |-> r.path, to |-> None,
            content |-> r.content]
      [] r.kind = "overwrite" ->
           [id |-> id[t], parent |-> 0, kind |-> "o", path |-> r.path, to |-> None,
            content |-> r.content]
      [] r.kind = "rename" ->
           [id |-> id[t], parent |-> 0, kind |-> "r", path |-> r.to, to |-> r.path,
            content |-> None]
      [] r.kind = "delete" ->
           [id |-> id[t], parent |-> 0, kind |-> "d", path |-> r.path, to |-> None,
            content |-> None]
      [] OTHER -> Undefined
ActionOf(t, r) ==
    CASE r.kind = "create" ->
           [id |-> id[t], parent |-> 0, kind |-> "c", path |-> r.path, to |-> None,
            content |-> r.content]
      [] r.kind = "overwrite" ->
           [id |-> id[t], parent |-> 0, kind |-> "o", path |-> r.path, to |-> None,
            content |-> r.content]
      [] r.kind = "rename" ->
           [id |-> id[t], parent |-> 0, kind |-> "r", path |-> r.path, to |-> r.to,
            content |-> None]
      [] r.kind = "delete" ->
           [id |-> id[t], parent |-> 0, kind |-> "d", path |-> r.path, to |-> None,
            content |-> None]
      [] OTHER -> Undefined
\* clean(array): the array without its undefined entries
clean(s) == SelectSeq(s, LAMBDA x : x.kind # Undefined.kind)
actions(rc, t) ==
    clean([i \in 1..Len(records(rc, t)) |-> ActionOf(t, records(rc, t)[i])])

(* -------------------------- MergeStrategy ----------------------------- *)
AllowOverwriteConflict == 2
AllowCreationConflict == 4
AllowDeleteConflict == 8
Default == 0
ContentOnly == AllowOverwriteConflict
OverwriteAll == AllowOverwriteConflict + AllowCreationConflict + AllowDeleteConflict

\* the bitwise & of two non-negative integers
RECURSIVE BitAnd(_, _)
BitAnd(x, y) ==
    IF x = 0 \/ y = 0 THEN 0
    ELSE (x % 2) * (y % 2) + 2 * BitAnd(x \div 2, y \div 2)

creationConflictAllowed(strategy) ==
    BitAnd(strategy, AllowCreationConflict) = AllowCreationConflict
overwriteConflictAllowed(strategy) ==
    BitAnd(strategy, AllowOverwriteConflict) = AllowOverwriteConflict
deleteConflictAllowed(strategy) ==
    BitAnd(strategy, AllowOverwriteConflict) = AllowDeleteConflict

(* --------------------------- HostTree.merge --------------------------- *)
Conflict(rc, p) == [rc |-> rc, err |-> "MergeConflict", path |-> p]
Done(res, p) == [rc |-> res.rc, err |-> res.err, path |-> p]

\* the forEach body without the test for a pending create or overwrite
MergeActionUnchecked(rc, t, action, strategy) ==
    IF action.id = id[t] THEN Done(Ok(rc), action.path)
    ELSE CASE action.kind = "c" ->
                Done(CordCreate(rc, t, action.path, action.content), action.path)
           [] action.kind = "o" ->
                Done(CordOverwrite(rc, t, action.path, action.content), action.path)
           [] action.kind = "r" -> Done(rename(rc, t, action.path, action.to), action.path)
           [] action.kind = "d" -> Done(CordDelete(rc, t, action.path), action.path)
\* the forEach body with a rename conflict that AllowOverwriteConflict overrides
MergeActionRenameOverride(rc, t, action, strategy) ==
    IF action.id = id[t] THEN Done(Ok(rc), action.path)
    ELSE CASE action.kind = "c" ->
                IF willCreate(rc, t, action.path) \/ willOverwrite(rc, t, action.path)
                THEN IF ~creationConflictAllowed(strategy)
                     THEN Conflict(rc, action.path)
                     ELSE Done(CordOverwrite(rc, t, action.path, action.content), action.path)
                ELSE Done(CordCreate(rc, t, action.path, action.content), action.path)
           [] action.kind = "o" ->
                IF willOverwrite(rc, t, action.path) /\ ~overwriteConflictAllowed(strategy)
                THEN Conflict(rc, action.path)
                ELSE Done(CordOverwrite(rc, t, action.path, action.content), action.path)
           [] action.kind = "r" ->
                IF willRename(rc, t, action.path) /\ ~overwriteConflictAllowed(strategy)
                THEN Conflict(rc, action.path)
                ELSE Done(rename(rc, t, action.path, action.to), action.path)
           [] action.kind = "d" ->
                IF willDelete(rc, t, action.path) /\ ~deleteConflictAllowed(strategy)
                THEN Conflict(rc, action.path)
                ELSE Done(CordDelete(rc, t, action.path), action.path)
\* the body of other.actions.forEach, for one action
MergeAction(rc, t, action, strategy) ==
    IF action.id = id[t] THEN Done(Ok(rc), action.path)
    ELSE CASE action.kind = "c" ->
                IF willCreate(rc, t, action.path) \/ willOverwrite(rc, t, action.path)
                THEN IF ~creationConflictAllowed(strategy)
                     THEN Conflict(rc, action.path)
                     ELSE Done(CordOverwrite(rc, t, action.path, action.content), action.path)
                ELSE Done(CordCreate(rc, t, action.path, action.content), action.path)
           [] action.kind = "o" ->
                IF willOverwrite(rc, t, action.path) /\ ~overwriteConflictAllowed(strategy)
                THEN Conflict(rc, action.path)
                ELSE Done(CordOverwrite(rc, t, action.path, action.content), action.path)
           [] action.kind = "r" ->
                IF willRename(rc, t, action.path)
                THEN Conflict(rc, action.path)
                ELSE Done(rename(rc, t, action.path, action.to), action.path)
           [] action.kind = "d" ->
                IF willDelete(rc, t, action.path) /\ ~deleteConflictAllowed(strategy)
                THEN Conflict(rc, action.path)
                ELSE Done(CordDelete(rc, t, action.path), action.path)

\* forEach that returns after the action it starts with
MergeFromFirstOnly(rc, t, acts, k, strategy) ==
    IF k > Len(acts) THEN [rc |-> rc, err |-> "ok", path |-> None, at |-> 0]
    ELSE LET s == MergeAction(rc, t, acts[k], strategy) IN
         [rc |-> s.rc, err |-> s.err, path |-> s.path, at |-> IF s.err = "ok" THEN 0 ELSE k]
\* forEach that goes on with the next action after one that throws, and
\* reports the first thing thrown
RECURSIVE MergeFromPast(_, _, _, _, _)
MergeFromPast(rc, t, acts, k, strategy) ==
    IF k > Len(acts) THEN [rc |-> rc, err |-> "ok", path |-> None, at |-> 0]
    ELSE LET s == MergeAction(rc, t, acts[k], strategy)
             rest == MergeFromPast(s.rc, t, acts, k + 1, strategy) IN
         IF s.err # "ok" THEN [rc |-> rest.rc, err |-> s.err, path |-> s.path, at |-> k]
         ELSE rest
\* forEach from the k-th action on: stops at the first action that throws
RECURSIVE MergeFrom(_, _, _, _, _)
MergeFrom(rc, t, acts, k, strategy) ==
    IF k > Len(acts) THEN [rc |-> rc, err |-> "ok", path |-> None, at |-> 0]
    ELSE LET s == MergeAction(rc, t, acts[k], strategy) IN
         IF s.err # "ok" THEN [rc |-> s.rc, err |-> s.err, path |-> s.path, at |-> k]
         ELSE MergeFrom(s.rc, t, acts, k + 1, strategy)

merge(rc, t, other, strategy) ==
    IF other = t THEN [rc |-> rc, err |-> "ok", path |-> None, at |-> 0]
    ELSE MergeFrom(rc, t, actions(rc, other), 1, strategy)

(* ------------------------------ the calls ----------------------------- *)
TotalRecs(rc) ==
    LET RECURSIVE Sum(_)
        Sum(n) == IF n = 0 THEN 0 ELSE Len(rc[n]) + Sum(n - 1)
    IN Sum(MaxTrees)

Call(op, t, p, res) ==
    [op |-> op, t |-> t, path |-> p, res |-> res, other |-> 0, strategy |-> Default, at |-> 0,
     visitor |-> NoVisitor, visited |-> <<>>]

\* the origins once tree t has made a call that left the logs as rc
Grown(rc, t) ==
    [u \in Trees |-> origin[u] \o [i \in 1..(Len(rc[u]) - Len(rec[u])) |-> t]]

Mutate(op, t, raw, res) ==
    /\ TotalRecs(res.rc) <= MaxRecs
    /\ rec' = res.rc
    /\ origin' = Grown(res.rc, t)
    /\ last' = Call(op, t, normalizePath(raw), res.err)
    /\ UNCHANGED <<uniqueId, id, back, base, recorder, dirCache>>

Create(t, raw, c) == Mutate("create", t, raw, create(rec, t, raw, c))
Overwrite(t, raw, c) == Mutate("overwrite", t, raw, overwrite(rec, t, raw, c))
Delete(t, raw) == Mutate("delete", t, raw, delete(rec, t, raw))
\* the files a rename of "from" moves keep a modelled path
Fits(t, from, to) ==
    \A q \in Paths :
        (AtOrUnder(from, q) /\ CordIsFile(rec, t, q)) => Moved(from, to, q) \in Paths
Rename(t, from, to) ==
    /\ Fits(t, normalizePath(from), normalizePath(to))
    /\ Mutate("rename", t, from, rename(rec, t, from, to))

\* the recorders a caller may hold: begun on a path, with the edits recorded since
PatchLists == {<<>>, <<InsertLeft(0, <<"z">>)>>, <<Remove(0, 1)>>}
Recorders(paths) == {Recorder(p, ps) : p \in paths, ps \in PatchLists} \cup {ForeignRecorder}

CommitUpdate(t, record) ==
    LET res == commitUpdate(rec, t, record) IN
    /\ \A i \in 1..Len(res.rc[t]) : Len(res.rc[t][i].content) <= MaxContent
    /\ Mutate("commitUpdate", t, record.path, res)

\* branch() over the backend this tree was built on, not over this tree
BranchOfBackend(t) ==
    /\ uniqueId < MaxTrees
    /\ uniqueId' = uniqueId + 1
    /\ id' = [id EXCEPT ![uniqueId + 1] = uniqueId]
    /\ back' = [back EXCEPT ![uniqueId + 1] = back[t]]
    /\ last' = [Call("branch", t, None, "ok") EXCEPT !.other = uniqueId + 1]
    /\ UNCHANGED <<rec, base, recorder, dirCache, origin>>
\* branch() whose tree takes over the id of the tree it is branched from
BranchSharingId(t) ==
    /\ uniqueId < MaxTrees
    /\ uniqueId' = uniqueId + 1
    /\ id' = [id EXCEPT ![uniqueId + 1] = id[t]]
    /\ back' = [back EXCEPT ![uniqueId + 1] = t]
    /\ last' = [Call("branch", t, None, "ok") EXCEPT !.other = uniqueId + 1]
    /\ UNCHANGED <<rec, base, recorder, dirCache, origin>>
\* branch(): new HostTree(this._record)
Branch(t) ==
    /\ uniqueId < MaxTrees
    /\ uniqueId' = uniqueId + 1
    /\ id' = [id EXCEPT ![uniqueId + 1] = uniqueId]
    /\ back' = [back EXCEPT ![uniqueId + 1] = t]
    /\ last' = [Call("branch", t, None, "ok") EXCEPT !.other = uniqueId + 1]
    /\ UNCHANGED <<rec, base, recorder, dirCache, origin>>

\* the origins once tree t has replayed actions of tree other and holds log
\* "now": every record replayed stems from where the source's record stems from
Replayed(t, other, now) ==
    LET acts == actions(rec, other)
        took == SelectSeq([k \in 1..Len(acts) |-> k], LAMBDA k : acts[k].id # id[t])
    IN [origin EXCEPT ![t] = @ \o [i \in 1..(Len(now) - Len(rec[t])) |-> origin[other][took[i]]]]

MergeWithin(t, other, strategy, room) ==
    LET res == merge(rec, t, other, strategy) IN
    /\ TotalRecs(res.rc) <= room
    /\ rec' = res.rc
    /\ origin' = Replayed(t, other, res.rc[t])
    /\ last' = [Call("merge", t, res.path, res.err)
                  EXCEPT !.other = other, !.strategy = strategy, !.at = res.at]
    /\ UNCHANGED <<uniqueId, id, back, base, recorder, dirCache>>
Merge(t, other, strategy) == MergeWithin(t, other, strategy, MaxRecs)

(* ---------- one tree over a host backend: every call, failed or not ---- *)
BaseFiles ==
    { [p \in Paths |-> None],
      [p \in Paths |-> IF p = <<"a">> THEN <<"x">> ELSE None],
      [p \in Paths |-> IF p = <<"a", "b">> THEN <<"x">> ELSE None] }

Init ==
    /\ uniqueId = 1
    /\ id = [t \in Trees |-> IF t = 1 THEN 0 ELSE -1]
    /\ back = [t \in Trees |-> 0]
    /\ rec = [t \in Trees |-> <<>>]
    /\ base \in BaseFiles
    /\ recorder = ForeignRecorder
    /\ dirCache = [t \in Trees |-> {}]
    /\ origin = [t \in Trees |-> <<>>]
    /\ last = Call("new", 1, None, "ok")

Next ==
    \/ \E raw \in RawPaths, c \in Contents : Create(1, raw, c)
    \/ \E raw \in RawPaths, c \in Contents : Overwrite(1, raw, c)
    \/ \E raw \in RawPaths : Delete(1, raw)
    \/ \E from \in RawPaths, to \in RawPaths : Rename(1, from, to)

Spec == Init /\ [][Next]_vars

(* ------- branches and merges: the calls that return normally ----------- *)
BranchPaths == {<<"a">>, <<"c">>}

InitBranch ==
    /\ Init
    /\ base = [p \in Paths |-> IF p = <<"a">> THEN <<"x">> ELSE None]

\* a call that returns normally, while the model has room for its record
Returns(res, room) == TotalRecs(rec) < room /\ res.err = "ok"

Mutations(room) ==
    \/ \E t \in Alive, p \in BranchPaths, c \in Contents :
          Returns(create(rec, t, p, c), room) /\ Create(t, p, c)
    \/ \E t \in Alive, p \in BranchPaths, c \in Contents :
          Returns(overwrite(rec, t, p, c), room) /\ Overwrite(t, p, c)
    \/ \E t \in Alive, p \in BranchPaths : Returns(delete(rec, t, p), room) /\ Delete(t, p)
    \/ \E t \in Alive, from \in BranchPaths, to \in BranchPaths :
          Returns(rename(rec, t, from, to), room) /\ Rename(t, from, to)

Structural(room) ==
    \/ Mutations(room)
    \/ \E t \in Alive : Branch(t)

NextBranch ==
    \/ Structural(MaxBranchRecs)
    \/ \E t \in Alive, record \in Recorders(BranchPaths) :
          Returns(commitUpdate(rec, t, record), MaxBranchRecs) /\ CommitUpdate(t, record)

SpecBranch == InitBranch /\ [][NextBranch]_vars

(* ---------------- branches, and merges under a strategy ----------------- *)
MergeStrategies == {Default, AllowCreationConflict}

NextMerge ==
    \/ Structural(MaxRecs)
    \/ \E t \in Alive, other \in Alive, strategy \in MergeStrategies :
          Merge(t, other, strategy)

SpecMerge == InitBranch /\ [][NextMerge]_vars

(* ------------- branches of a few records, merged whole ----------------- *)
NextReplay ==
    \/ Structural(MaxBranchRecs)
    \/ \E t \in Alive, other \in Alive, strategy \in MergeStrategies :
          MergeWithin(t, other, strategy, MaxMergedRecs)

SpecReplay == InitBranch /\ [][NextReplay]_vars

(* ------------- trees constructed on the host backend, and branches ------ *)
\* new HostTree(backend): _id = _uniqueId++, an overlay of its own over the backend
Construct ==
    /\ uniqueId < MaxTrees
    /\ uniqueId' = uniqueId + 1
    /\ id' = [id EXCEPT ![uniqueId + 1] = uniqueId]
    /\ back' = [back EXCEPT ![uniqueId + 1] = 0]
    /\ last' = Call("new", uniqueId + 1, None, "ok")
    /\ UNCHANGED <<rec, base, recorder, dirCache, origin>>

NextIds ==
    \/ Mutations(MaxBranchRecs)
    \/ \E t \in Alive : Branch(t)
    \/ Construct

SpecIds == InitBranch /\ [][NextIds]_vars

(* ------------- a tree and its branch, merged under every allowance ----- *)
ConflictStrategies == {Default, ContentOnly, AllowDeleteConflict, OverwriteAll}

NextConflict ==
    \/ Mutations(MaxRecs)
    \/ uniqueId < MaxConflictTrees /\ Branch(1)
    \/ \E t \in Alive, other \in Alive, strategy \in ConflictStrategies :
          MergeWithin(t, other, strategy, MaxMergedRecs)

SpecConflict == InitBranch /\ [][NextConflict]_vars

(* ------------- a recorder begun, edited and committed on a tree -------- *)
\* beginUpdate(path): the caller now holds the recorder it returns
BeginUpdate(t, raw) ==
    LET res == beginUpdate(rec, t, raw) IN
    /\ recorder' = IF res.err = "ok" THEN res.recorder ELSE recorder
    /\ last' = Call("beginUpdate", t, normalizePath(raw), res.err)
    /\ UNCHANGED <<uniqueId, id, back, rec, base, dirCache, origin>>

\* recorder.insertLeft / insertRight / remove: one more patch in the list
Record(patch) ==
    /\ recorder.base
    /\ Len(recorder.patches) < MaxPatches
    /\ recorder' = [recorder EXCEPT !.patches = Append(@, patch)]
    /\ last' = Call(patch.kind, 0, recorder.path, "ok")
    /\ UNCHANGED <<uniqueId, id, back, rec, base, dirCache, origin>>
RecordInsertLeft(offset, text) == Record(InsertLeft(offset, text))
RecordInsertRight(offset, text) == Record(InsertRight(offset, text))
RecordRemove(offset, length) == Record(Remove(offset, length))

\* commitUpdate(recorder) of the recorder the caller holds
CommitHeld(t) == Mutate("commitUpdate", t, recorder.path, commitUpdate(rec, t, recorder))

UpdatePaths == {<<"a">>, <<"a", "b">>}
UpdateTexts == {<<"z">>}

NextUpdate ==
    \/ \E p \in UpdatePaths, c \in Contents :
          Returns(create(rec, 1, p, c), MaxBranchRecs) /\ Create(1, p, c)
    \/ \E p \in UpdatePaths, c \in Contents :
          Returns(overwrite(rec, 1, p, c), MaxBranchRecs) /\ Overwrite(1, p, c)
    \/ \E p \in UpdatePaths : Returns(delete(rec, 1, p), MaxBranchRecs) /\ Delete(1, p)
    \/ \E from \in UpdatePaths, to \in UpdatePaths :
          Returns(rename(rec, 1, from, to), MaxBranchRecs) /\ Rename(1, from, to)
    \/ \E p \in UpdatePaths : BeginUpdate(1, p)
    \/ \E text \in UpdateTexts :
          Len(recorder.patches) < MaxUpdatePatches /\ RecordInsertLeft(0, text)
    \/ \E text \in UpdateTexts :
          Len(recorder.patches) < MaxUpdatePatches /\ RecordInsertRight(1, text)
    \/ Len(recorder.patches) < MaxUpdatePatches /\ RecordRemove(0, 1)
    \/ CommitHeld(1)

SpecUpdate == InitBranch /\ [][NextUpdate]_vars

(* ------------- UpdateRecorder.apply, on contents and patch lists ------- *)
ApplyContents == {<<"a", "b", "c", "d", "e", "f">>, <<"a", "b", "c", "d", "e">>}
EditOffsets == {0, 2, 6}
RemoveOffsets == {2, 3}
EditTexts == {<<"X">>, <<"Y">>}
EditLengths == {2}

InitApply ==
    /\ uniqueId = 1
    /\ id = [t \in Trees |-> IF t = 1 THEN 0 ELSE -1]
    /\ back = [t \in Trees |-> 0]
    /\ rec = [t \in Trees |-> <<>>]
    /\ \E c \in ApplyContents : base = [p \in Paths |-> IF p = <<"a">> THEN c ELSE None]
    /\ recorder = ForeignRecorder
    /\ dirCache = [t \in Trees |-> {}]
    /\ origin = [t \in Trees |-> <<>>]
    /\ last = Call("new", 1, None, "ok")

\* the edit lies inside the content the recorder was begun on
InRange(offset, length) == offset + length <= Len(base[recorder.path])

\* the recorder is begun and edited, then committed once
Editing == rec[1] = <<>>

NextApply ==
    \/ Editing /\ ~recorder.base /\ BeginUpdate(1, <<"a">>)
    \/ \E offset \in EditOffsets, text \in EditTexts :
          Editing /\ recorder.base /\ InRange(offset, 0) /\ RecordInsertLeft(offset, text)
    \/ \E offset \in EditOffsets, text \in EditTexts :
          Editing /\ recorder.base /\ InRange(offset, 0) /\ RecordInsertRight(offset, text)
    \/ \E offset \in RemoveOffsets, length \in EditLengths :
          Editing /\ recorder.base /\ InRange(offset, length) /\ RecordRemove(offset, length)
    \/ Editing /\ recorder.base /\ CommitHeld(1)

SpecApply == InitApply /\ [][NextApply]_vars

(* ---------------- a tree with directories, and its visits -------------- *)
\* visit(visitor): the files the visitor was called for, and how the visit ended
Visit(t, visitor) ==
    LET res == visit(rec, t, dirCache[t], visitor) IN
    /\ dirCache' = [dirCache EXCEPT ![t] = res.cache]
    /\ last' = [Call("visit", t, visitor.stopAt, res.status)
                  EXCEPT !.visitor = visitor, !.visited = res.visited]
    /\ UNCHANGED <<uniqueId, id, back, rec, base, recorder, origin>>

\* get(path): what the caller gets, an entry, null or an exception
Get(t, raw) ==
    LET entry == get(rec, t, raw) IN
    /\ last' = Call("get", t, normalizePath(raw),
                    CASE entry = PathIsDirectory -> "PathIsDirectory"
                      [] entry = None -> "null"
                      [] OTHER -> "ok")
    /\ UNCHANGED <<uniqueId, id, back, rec, base, recorder, dirCache, origin>>

\* getDir(path): an entry or an exception, and the entries it has cached
GetDir(t, raw) ==
    LET res == getDir(rec, t, dirCache[t], raw) IN
    /\ dirCache' = [dirCache EXCEPT ![t] = res.cache]
    /\ last' = Call("getDir", t, normalizePath(raw),
                    IF res.entry = PathIsFile THEN "PathIsFile" ELSE "ok")
    /\ UNCHANGED <<uniqueId, id, back, rec, base, recorder, origin>>

\* entry.subfiles and entry.subdirs, read on an entry getDir has handed out
Subfiles(t, entry) ==
    /\ entry \in dirCache[t]
    /\ last' = [Call("subfiles", t, entry, "ok") EXCEPT !.visited = subfiles(rec, t, entry)]
    /\ UNCHANGED <<uniqueId, id, back, rec, base, recorder, dirCache, origin>>
Subdirs(t, entry) ==
    /\ entry \in dirCache[t]
    /\ last' = [Call("subdirs", t, entry, "ok") EXCEPT !.visited = subdirs(rec, t, entry)]
    /\ UNCHANGED <<uniqueId, id, back, rec, base, recorder, dirCache, origin>>

Visitors ==
    {NoVisitor} \cup {Visitor(p, how) : p \in Paths, how \in {"cancel", "VisitorError"}}

VisitBases ==
    { [p \in Paths |-> None],
      [p \in Paths |-> CASE p = <<"c">> -> <<"x">> [] p = <<"a", "b">> -> <<"y">>
                          [] OTHER -> None] }

InitVisit ==
    /\ uniqueId = 1
    /\ id = [t \in Trees |-> IF t = 1 THEN 0 ELSE -1]
    /\ back = [t \in Trees |-> 0]
    /\ rec = [t \in Trees |-> <<>>]
    /\ base \in VisitBases
    /\ recorder = ForeignRecorder
    /\ dirCache = [t \in Trees |-> {}]
    /\ origin = [t \in Trees |-> <<>>]
    /\ last = Call("new", 1, None, "ok")

\* the mutations of the tree that return normally
Reshape ==
    \/ \E p \in Paths, c \in Contents :
          Returns(create(rec, 1, p, c), MaxBranchRecs) /\ Create(1, p, c)
    \/ \E p \in Paths, c \in Contents :
          Returns(overwrite(rec, 1, p, c), MaxBranchRecs) /\ Overwrite(1, p, c)
    \/ \E p \in Paths : Returns(delete(rec, 1, p), MaxBranchRecs) /\ Delete(1, p)
    \/ \E from \in Paths, to \in Paths :
          Returns(rename(rec, 1, from, to), MaxBranchRecs) /\ Rename(1, from, to)

NextVisit ==
    \/ Reshape
    \/ \E visitor \in Visitors : Visit(1, visitor)

SpecVisit == InitVisit /\ [][NextVisit]_vars

(* ------------- a tree with directories, and its entries ---------------- *)
NextDir ==
    \/ Reshape
    \/ \E p \in Paths : Get(1, p)
    \/ \E p \in Paths : GetDir(1, p)
    \/ \E entry \in dirCache[1] : Subfiles(1, entry)
    \/ \E entry \in dirCache[1] : Subdirs(1, entry)

SpecDir == InitVisit /\ [][NextDir]_vars

(* ============================== claims ================================ *)
MutOps == {"create", "overwrite", "delete", "rename", "commitUpdate"}
\* the step just taken was a mutation of tree t that returned normally
Mutated(t) == last'.op \in MutOps /\ last'.res = "ok" /\ last'.t = t

\* C1: a successful create/overwrite/delete/rename/commitUpdate on a branch B
\* of T leaves T.read(p) and T.exists(p) of every path p, and T.actions, as
\* they were before the call.
C1_BranchMutationLeavesParent ==
    [][\A b \in Alive :
          (Mutated(b) /\ back[b] # 0) =>
              /\ View(rec', back[b]) = View(rec, back[b])
              /\ actions(rec', back[b]) = actions(rec, back[b])]_vars
C1_Witness ==
    /\ last.op = "commitUpdate" /\ last.res = "ok"
    /\ back[last.t] # 0
    /\ rec[back[last.t]] # <<>>
    /\ View(rec, last.t) # View(rec, back[last.t])

\* C2: a successful mutation of T after B = T.branch() leaves B.read(p) and
\* B.exists(p) of every path p as they were before the call.
C2_ParentMutationInvisibleToBranch ==
    [][\A b \in Alive :
          (back[b] # 0 /\ Mutated(back[b])) => View(rec', b) = View(rec, b)]_vars

\* C3: right after B = T.branch(), B.exists(p) = T.exists(p) and
\* B.read(p) = T.read(p) for every path p, and B has no record and no action.
C3_BranchStartsAsParent ==
    last.op = "branch" =>
        /\ View(rec, last.other) = View(rec, last.t)
        /\ records(rec, last.other) = <<>>
        /\ actions(rec, last.other) = <<>>
C3_Witness ==
    /\ last.op = "branch"
    /\ back[last.t] # 0
    /\ rec[last.t] # <<>>
    /\ \E i \in 1..Len(rec[last.t]) : rec[last.t][i].kind = "rename"
    /\ View(rec, last.t) # View(rec, back[last.t])

\* the paths the records of tree t name
Touched(rc, t) ==
    {rc[t][i].path : i \in 1..Len(rc[t])}
        \cup {rc[t][i].to : i \in {j \in 1..Len(rc[t]) : rc[t][j].kind = "rename"}}

\* the step just taken was this.merge(other, strategy) on tree t
Merging(t, other, strategy) ==
    last'.op = "merge" /\ last'.t = t /\ last'.other = other /\ last'.strategy = strategy

\* C4: merging a branch B into its parent P under the Default strategy, when no
\* path is named by records of both, returns normally; afterwards P.read and
\* P.exists equal B's for every path B's records name, and equal P's values
\* before the merge for every other path.
C4_StrictMergeOfDisjointBranch ==
    [][\A P \in Alive, B \in Alive :
          (/\ Merging(P, B, Default)
           /\ back[B] = P
           /\ Touched(rec, B) \cap Touched(rec, P) = {})
          => /\ last'.res = "ok"
             /\ \A p \in Paths :
                   View(rec', P)[p] = IF p \in Touched(rec, B) THEN View(rec, B)[p]
                                      ELSE View(rec, P)[p]]_vars

\* the indices of the source's Create actions whose path the destination has a
\* pending create or overwrite for
CreateClashes(D, S) ==
    {k \in 1..Len(actions(rec, S)) :
        /\ actions(rec, S)[k].kind = "c"
        /\ \/ willCreate(rec, D, actions(rec, S)[k].path)
           \/ willOverwrite(rec, D, actions(rec, S)[k].path)}
Least(S) == CHOOSE k \in S : \A j \in S : k <= j

\* C5: a merge without AllowCreationConflict whose source holds a Create for a
\* path the destination already has a pending create or overwrite for does not
\* return normally: it stops at that Create at the latest, and stopping there
\* it raises MergeConflictException for that path and applies nothing of it.
\* So of two branches that created the same new path, the second to be merged
\* under Default raises MergeConflictException for the path.
C5_CreateOnPendingCreateConflicts ==
    [][\A D \in Alive, S \in Alive, strategy \in MergeStrategies :
          (/\ Merging(D, S, strategy)
           /\ D # S
           /\ ~creationConflictAllowed(strategy)
           /\ CreateClashes(D, S) # {})
          => LET k == Least(CreateClashes(D, S)) IN
             /\ last'.res # "ok"
             /\ last'.at \in 1..k
             /\ last'.at = k =>
                   /\ last'.res = "MergeConflict"
                   /\ last'.path = actions(rec, S)[k].path
             /\ last'.at = 1 => rec' = rec]_vars
C5_Witness ==
    /\ last.op = "merge" /\ last.strategy = Default /\ last.res = "MergeConflict"
    /\ \E B1 \in Alive \ {last.t, last.other} :
          /\ back[B1] = last.t /\ back[last.other] = last.t
          /\ \E c1 \in Contents, c2 \in Contents :
                /\ rec[B1] = <<CreateRec(last.path, c1)>>
                /\ rec[last.other] = <<CreateRec(last.path, c2)>>
                /\ rec[last.t] = <<CreateRec(last.path, c1)>>
                /\ c1 # c2

\* C6: under AllowCreationConflict, merging a Create whose path the destination
\* already has a pending create or overwrite for returns normally, and
\* afterwards destination.read(path) is the source's content of that path.
C6_AllowedCreationConflictOverwrites ==
    [][\A D \in Alive, S \in Alive :
          (/\ Merging(D, S, AllowCreationConflict)
           /\ D # S
           /\ CreateClashes(D, S) # {})
          => /\ last'.res = "ok"
             /\ \A k \in CreateClashes(D, S) :
                   read(rec', D, actions(rec, S)[k].path)
                      = read(rec, S, actions(rec, S)[k].path)]_vars

EmptyBase == [p \in Paths |-> None]
NoRecords == [t \in Trees |-> <<>>]

\* the exported actions replayed in order on a fresh tree over an empty backend,
\* through create, overwrite, rename and delete
RECURSIVE Replay(_, _, _)
Replay(rc, acts, k) ==
    IF k > Len(acts) THEN Ok(rc)
    ELSE LET a == acts[k]
             res == CASE a.kind = "c" -> create(rc, 1, a.path, a.content)
                      [] a.kind = "o" -> overwrite(rc, 1, a.path, a.content)
                      [] a.kind = "r" -> rename(rc, 1, a.path, a.to)
                      [] a.kind = "d" -> delete(rc, 1, a.path)
         IN IF res.err # "ok" THEN res ELSE Replay(res.rc, acts, k + 1)

\* C7: for a tree over an empty backend, replaying its exported actions in
\* order on a fresh empty tree never fails and gives the same read(p) and
\* exists(p) for every path p.
C7_LogFidelity ==
    base = EmptyBase =>
        LET replayed == Replay(NoRecords, actions(rec, 1), 1) IN
        /\ replayed.err = "ok"
        /\ View(replayed.rc, 1) = View(rec, 1)
C7_Witness ==
    /\ base = EmptyBase
    /\ Len(rec[1]) = 3
    /\ rec[1][2].kind = "rename"
    /\ rec[1][3].kind = "delete"

StructuralOps == {"create", "overwrite", "delete", "rename"}

\* C8: every successful create/overwrite/delete/rename appends exactly one
\* record at the end of the log and leaves the earlier ones as they were (a
\* failed one leaves the log alone), and every record is exported as one
\* action; after create(/c, C); delete(/c); create(/c, C2) the log holds three
\* records, read(/c) = C2 and exists(/c).
C8_LogAppendOnly ==
    /\ [][last'.op \in StructuralOps =>
             /\ last'.res = "ok" =>
                   /\ Len(rec'[1]) = Len(rec[1]) + 1
                   /\ SubSeq(rec'[1], 1, Len(rec[1])) = rec[1]
             /\ last'.res # "ok" => rec' = rec
             /\ Len(actions(rec', 1)) = Len(rec'[1])]_vars
    /\ [](\A c \in Contents, c2 \in Contents :
             rec[1] = <<CreateRec(<<"c">>, c), DeleteRec(<<"c">>), CreateRec(<<"c">>, c2)>>
                => read(rec, 1, <<"c">>) = c2 /\ exists(rec, 1, <<"c">>))
C8_Witness ==
    /\ rec[1] = <<CreateRec(<<"c">>, <<"x">>), DeleteRec(<<"c">>), CreateRec(<<"c">>, <<"y">>)>>
    /\ last.op = "create" /\ last.res = "ok"

\* C9: create(path, content) raises FileAlreadyExists exactly when the path
\* exists already (in the backend or by an earlier record), and then appends
\* no record and changes read/exists of no path; otherwise it appends one
\* Create record for the path and read(path) returns its content.
C9_CreateFailsOnExisting ==
    [][last'.op = "create" =>
          IF CordExists(rec, 1, last'.path)
          THEN /\ last'.res = "FileAlreadyExist"
               /\ rec' = rec
               /\ View(rec', 1) = View(rec, 1)
          ELSE /\ last'.res = "ok"
               /\ \E c \in Contents :
                     /\ rec'[1] = Append(rec[1], CreateRec(last'.path, c))
                     /\ read(rec', 1, last'.path) = c]_vars
C9_Witness ==
    /\ last.op = "create" /\ last.res = "FileAlreadyExist"
    /\ base[last.path] = None
    /\ willCreate(rec, 1, last.path)
    /\ exists(rec, 1, last.path)

\* C10: overwrite(path, content) raises FileDoesNotExist exactly when the path
\* does not resolve to a file, and then appends no record; when it resolves to
\* a file it appends one Overwrite record and read(path) returns the content.
C10_OverwriteFailsOnNonFile ==
    [][last'.op = "overwrite" =>
          IF ~exists(rec, 1, last'.path)
          THEN /\ last'.res = "FileDoesNotExist"
               /\ rec' = rec
          ELSE /\ last'.res = "ok"
               /\ \E c \in Contents :
                     /\ rec'[1] = Append(rec[1], OverwriteRec(last'.path, c))
                     /\ read(rec', 1, last'.path) = c]_vars

\* C11: delete(path) raises FileDoesNotExist when nothing is at the path (never
\* created, deleted, or renamed away), and then appends no record and changes
\* read/exists of no path; otherwise it appends one Delete record for the path,
\* after which exists(path) is false and read(path) is null.
C11_DeleteFailsOnAbsent ==
    [][last'.op = "delete" =>
          IF ~CordExists(rec, 1, last'.path)
          THEN /\ last'.res = "FileDoesNotExist"
               /\ rec' = rec
               /\ View(rec', 1) = View(rec, 1)
          ELSE /\ last'.res = "ok"
               /\ rec'[1] = Append(rec[1], DeleteRec(last'.path))
               /\ ~exists(rec', 1, last'.path)
               /\ read(rec', 1, last'.path) = None]_vars
C11_Witness ==
    /\ last.op = "delete" /\ last.res = "FileDoesNotExist"
    /\ base[last.path] # None
    /\ willRename(rec, 1, last.path)

\* C12: rename(from, to) raises FileDoesNotExist when nothing is at from and a
\* conflict (FileAlreadyExist) when something is at to, in both cases
\* appending no record and changing read/exists of no path; otherwise it
\* appends one Rename record, after which exists(from) is false, exists(to) is
\* true and read(to) is the content from had before.
C12_RenameMovesContent ==
    [][\A from \in RawPaths, to \in RawPaths :
          (last'.op = "rename" /\ Rename(1, from, to)) =>
              LET f == normalizePath(from)
                  g == normalizePath(to) IN
              IF ~CordExists(rec, 1, f)
              THEN last'.res = "FileDoesNotExist" /\ rec' = rec /\ View(rec', 1) = View(rec, 1)
              ELSE IF CordExists(rec, 1, g)
              THEN last'.res = "FileAlreadyExist" /\ rec' = rec /\ View(rec', 1) = View(rec, 1)
              ELSE /\ last'.res = "ok"
                   /\ rec'[1] = Append(rec[1], RenameRec(f, g))
                   /\ ~exists(rec', 1, f)
                   /\ exists(rec', 1, g)
                   /\ read(rec', 1, g) = read(rec, 1, f)]_vars

\* C13: commitUpdate of a recorder that beginUpdate returned, when the
\* recorder's path no longer resolves to a file (deleted, renamed away, turned
\* into a directory), raises ContentHasMutatedException, appends no record and
\* changes read/exists of no path.
C13_CommitOnVanishedPathFails ==
    [][(last'.op = "commitUpdate" /\ recorder.base /\ ~exists(rec, 1, recorder.path)) =>
          /\ last'.res = "ContentHasMutated"
          /\ rec' = rec
          /\ View(rec', 1) = View(rec, 1)]_vars

\* what is emitted at each offset of a content of n bytes, built one patch at
\* a time: the insertions on the left, whether the byte is kept, the
\* insertions on the right
RECURSIVE Slots(_, _, _)
Slots(patches, k, n) ==
    IF k = 0 THEN [i \in 0..n |-> [left |-> <<>>, keep |-> i < n, right |-> <<>>]]
    ELSE LET before == Slots(patches, k - 1, n)
             h == patches[k] IN
         [i \in 0..n |->
            CASE h.kind = "insertLeft" /\ h.offset = i ->
                   [before[i] EXCEPT !.left = @ \o h.text]
              [] h.kind = "insertRight" /\ h.offset = i ->
                   [before[i] EXCEPT !.right = @ \o h.text]
              [] h.kind = "remove" /\ h.offset <= i /\ i < h.offset + h.length ->
                   [before[i] EXCEPT !.keep = FALSE]
              [] OTHER -> before[i]]
RECURSIVE Emit(_, _, _)
Emit(content, slots, i) ==
    IF i > Len(content) THEN <<>>
    ELSE slots[i].left \o (IF slots[i].keep THEN <<content[i + 1]>> ELSE <<>>)
            \o slots[i].right \o Emit(content, slots, i + 1)
Reference(patches, content) == Emit(content, Slots(patches, Len(patches), Len(content)), 0)

Abcdef == <<"a", "b", "c", "d", "e", "f">>
XabefY == <<"X", "a", "b", "e", "f", "Y">>
Example == <<InsertLeft(0, <<"X">>), InsertRight(6, <<"Y">>), Remove(2, 2)>>

\* C14: for every content and patch list, apply(content) is the walk that at
\* each offset emits the insertLeft texts of that offset in recorded order,
\* then the byte unless a remove range covers it (overlapping ranges excise
\* their union), then the insertRight texts of that offset: "abcdef" with
\* insertLeft(0,"X"), insertRight(6,"Y"), remove(2,2) gives "XabefY".
\* commitUpdate writes that result as one Overwrite record and leaves the
\* content it read as it was.
C14_ApplyIsReferenceWalk ==
    /\ [](recorder.base =>
            /\ \A c \in {base[recorder.path]} :
                  apply(recorder.patches, c) = Reference(recorder.patches, c)
            /\ recorder.patches = Example => apply(recorder.patches, Abcdef) = XabefY)
    /\ [][last'.op = "commitUpdate" =>
             /\ rec'[1] = <<OverwriteRec(recorder.path,
                                        Reference(recorder.patches, read(rec, 1, recorder.path)))>>
             /\ read(rec', 1, recorder.path)
                   = Reference(recorder.patches, read(rec, 1, recorder.path))
             /\ FileAt(rec', 1, recorder.path, 0) = read(rec, 1, recorder.path)]_vars
C14_Witness ==
    /\ last.op = "commitUpdate" /\ last.res = "ok"
    /\ recorder.patches = Example
    /\ base[recorder.path] = Abcdef
    /\ read(rec, 1, recorder.path) = XabefY

Inserts == {"insertLeft", "insertRight"}
SameSpot(a, b) == a.kind \in Inserts /\ a.kind = b.kind /\ a.offset = b.offset
\* the orders in which n patches can be recorded that keep the insertions of
\* one offset and side in their order
RECURSIVE Arrangements(_)
Arrangements(S) ==
    IF S = {} THEN {<<>>}
    ELSE UNION {{<<x>> \o f : f \in Arrangements(S \ {x})} : x \in S}
Reorderings(patches) ==
    {f \in Arrangements(1..Len(patches)) :
        \A k, l \in 1..Len(patches) :
            (k < l /\ SameSpot(patches[f[k]], patches[f[l]])) => f[k] < f[l]}
Reordered(patches, f) == [k \in 1..Len(patches) |-> patches[f[k]]]

RECURSIVE Texts(_)
Texts(patches) == IF patches = <<>> THEN <<>> ELSE Head(patches).text \o Texts(Tail(patches))
\* where the insertions of a side at an offset land in a content
Landing(kind, offset, content) ==
    IF kind = "insertLeft" \/ offset >= Len(content) THEN offset ELSE offset + 1

\* C15: two patch lists that are permutations of each other and keep the
\* relative order of the insertions at the same offset and side apply to the
\* same result on every content; the insertions at one offset and side appear
\* in the output in recorded order.
C15_RecordingOrderIrrelevant ==
    recorder.base =>
        \A c \in {base[recorder.path]} :
            /\ \A f \in Reorderings(recorder.patches) :
                  apply(Reordered(recorder.patches, f), c) = apply(recorder.patches, c)
            /\ \A kind \in Inserts, offset \in EditOffsets :
                  offset <= Len(c) =>
                     LET here == SelectSeq(recorder.patches,
                                           LAMBDA h : h.kind = kind /\ h.offset = offset)
                         at == Landing(kind, offset, c) IN
                     apply(here, c) = SubSeq(c, 1, at) \o Texts(here) \o SubSeq(c, at + 1, Len(c))
C15_Witness ==
    /\ recorder.patches = <<InsertLeft(2, <<"Y">>), Remove(2, 2), InsertLeft(2, <<"X">>)>>
    /\ last.op = "commitUpdate" /\ last.res = "ok"
    /\ read(rec, 1, recorder.path) = <<"a", "b", "Y", "X", "e", "f">>

\* C16: visit calls the visitor for the files directly in a directory before
\* it calls it for any file in a subdirectory of that directory (with files /c
\* and /a/b, /c is visited before /a/b); a visit that runs to its end has
\* called the visitor for every file once.
C16_VisitFilesBeforeSubdirs ==
    last.op = "visit" =>
        LET v == last.visited IN
        /\ \A i, j \in 1..Len(v) : IsPrefix(dirname(v[j]), dirname(v[i])) => j < i
        /\ (last.res = "ok" /\ last.visitor = NoVisitor) =>
              /\ \A p \in Paths : exists(rec, 1, p) <=> \E i \in 1..Len(v) : v[i] = p
              /\ \A i, j \in 1..Len(v) : v[i] = v[j] => i = j
C16_Witness ==
    /\ last.op = "visit" /\ last.res = "ok"
    /\ last.visited = <<(<<"c">>), (<<"a", "b">>)>>
    /\ exists(rec, 1, <<"c">>) /\ exists(rec, 1, <<"a", "b">>)

\* the position of path p in a sequence of paths, 0 when it is not there
PlaceOf(v, p) == IF \E i \in 1..Len(v) : v[i] = p THEN CHOOSE i \in 1..Len(v) : v[i] = p ELSE 0

\* C17: when the visitor throws at a file, the files visited are those of the
\* traversal order up to that file and none after it, at any depth; visit
\* returns normally when what was thrown is FileVisitorCancelToken, and lets
\* any other error through to its caller.
C17_CancelStopsVisit ==
    (last.op = "visit" /\ PlaceOf(last.visited, last.visitor.stopAt) # 0) =>
        LET whole == visit(rec, 1, dirCache[1], NoVisitor).visited IN
        /\ last.visited = SubSeq(whole, 1, PlaceOf(whole, last.visitor.stopAt))
        /\ last.visitor.how = "cancel" => last.res = "ok"
        /\ last.visitor.how # "cancel" => last.res = last.visitor.how
C17_Witness ==
    /\ last.op = "visit" /\ last.res = "ok"
    /\ last.visitor = Visitor(<<"c">>, "cancel")
    /\ last.visited = <<(<<"c">>)>>
    /\ exists(rec, 1, <<"a", "b">>)

\* C18: in every state reachable by create, overwrite, delete, rename and
\* merge calls, no path of any tree is at once a file and a directory: after
\* create(/a), create(/a/b) does not leave /a both.
C18_NeverFileAndDirectory ==
    \A t \in Alive, p \in Paths : ~(CordIsFile(rec, t, p) /\ CordIsDirectory(rec, t, p))

\* the paths an action names
Names(a) == IF a.kind = "r" THEN {a.path, a.to} ELSE {a.path}
\* no two of the actions name the same path, or a path and one under it
PairwiseDisjoint(acts) ==
    \A i, j \in 1..Len(acts) :
        i # j => \A p \in Names(acts[i]), q \in Names(acts[j]) : ~AtOrUnder(p, q)
Injective(f) == \A k, l \in DOMAIN f : k # l => f[k] # f[l]
Orders(n) == {f \in [1..n -> 1..n] : Injective(f)}

\* C19: when a merge returns normally and the source's records name pairwise
\* disjoint paths, replaying those records in any other order returns normally
\* too and leaves the destination with the same read/exists of every path.
C19_MergeOrderIrrelevant ==
    [][\A D \in Alive, S \in Alive, strategy \in MergeStrategies :
          (/\ Merging(D, S, strategy)
           /\ D # S
           /\ last'.res = "ok"
           /\ PairwiseDisjoint(actions(rec, S)))
          => \A f \in Orders(Len(actions(rec, S))) :
                LET acts == actions(rec, S)
                    alt == MergeFrom(rec, D, [k \in 1..Len(acts) |-> acts[f[k]]], 1, strategy)
                IN /\ alt.err = "ok"
                   /\ View(alt.rc, D) = View(rec', D)]_vars
C19_Witness ==
    /\ last.op = "merge" /\ last.res = "ok"
    /\ Len(rec[last.other]) = 2
    /\ PairwiseDisjoint(actions(rec, last.other))
    /\ rec[last.t] = rec[last.other]
    /\ View(rec, last.t) # View(NoRecords, last.t)

\* C20: for two branches B1 and B2 of the same tree, a successful mutation of
\* B2 leaves B1.read(p) and B1.exists(p) of every path p, and B1.actions, as
\* they were, whatever the order in which the two are mutated.
C20_SiblingBranchesIsolated ==
    [][\A b1 \in Alive, b2 \in Alive :
          (/\ b1 # b2
           /\ back[b1] # 0
           /\ back[b1] = back[b2]
           /\ Mutated(b2))
          => /\ View(rec', b1) = View(rec, b1)
             /\ actions(rec', b1) = actions(rec, b1)]_vars
C20_Witness ==
    /\ last.op = "create" /\ last.res = "ok"
    /\ \E b1 \in Alive \ {last.t} :
          /\ back[b1] # 0
          /\ back[b1] = back[last.t]
          /\ rec[b1] # <<>>
          /\ ~exists(rec, b1, last.path)
          /\ exists(rec, last.t, last.path)

\* the indices of the source's Delete actions whose path the destination has a
\* pending delete for
DeleteClashes(D, S) ==
    {k \in 1..Len(actions(rec, S)) :
        /\ actions(rec, S)[k].kind = "d"
        /\ willDelete(rec, D, actions(rec, S)[k].path)}
\* the strategy has the bits of the flag
Sets(strategy, flag) == BitAnd(strategy, flag) = flag

OverwriteClashes(D, S) ==
    {k \in 1..Len(actions(rec, S)) :
        /\ actions(rec, S)[k].kind = "o"
        /\ willOverwrite(rec, D, actions(rec, S)[k].path)}

\* C22: a merge whose source holds an Overwrite for a path the destination has
\* a pending overwrite for, under a strategy without AllowOverwriteConflict,
\* does not return normally: it stops at that Overwrite at the latest, and
\* stopping there it raises MergeConflictException for the path; under a
\* strategy with AllowOverwriteConflict the merge does not stop at that
\* Overwrite, and once it has returned destination.read(path) is the source's
\* content of the path.
C22_OverwriteOnPendingOverwriteConflicts ==
    [][\A D \in Alive, S \in Alive, strategy \in ConflictStrategies :
          (/\ Merging(D, S, strategy)
           /\ D # S
           /\ OverwriteClashes(D, S) # {})
          => LET k == Least(OverwriteClashes(D, S)) IN
             IF Sets(strategy, AllowOverwriteConflict)
             THEN /\ last'.at # k
                  /\ last'.res = "ok" =>
                        \A j \in OverwriteClashes(D, S) :
                            read(rec', D, actions(rec, S)[j].path)
                               = read(rec, S, actions(rec, S)[j].path)
             ELSE /\ last'.res # "ok"
                  /\ last'.at \in 1..k
                  /\ last'.at = k =>
                        /\ last'.res = "MergeConflict"
                        /\ last'.path = actions(rec, S)[k].path]_vars

\* the content of the last Overwrite record tree t holds for path p
PendingOverwrite(rc, t, p) ==
    LET at == {i \in 1..Len(rc[t]) : rc[t][i].kind = "overwrite" /\ rc[t][i].path = p}
    IN rc[t][CHOOSE i \in at : \A j \in at : j <= i].content

\* C23: under the Default strategy, a merge does not raise
\* MergeConflictException at a source Overwrite whose content is the content
\* the destination has pending for the same path.
C23_SameContentOverwriteMerges ==
    [][\A D \in Alive, S \in Alive :
          (Merging(D, S, Default) /\ D # S) =>
              \A k \in OverwriteClashes(D, S) :
                  actions(rec, S)[k].content = PendingOverwrite(rec, D, actions(rec, S)[k].path)
                     => ~(last'.at = k /\ last'.res = "MergeConflict")]_vars

\* the indices of the source's Rename actions whose source path the
\* destination has a pending rename on
RenameClashes(D, S) ==
    {k \in 1..Len(actions(rec, S)) :
        /\ actions(rec, S)[k].kind = "r"
        /\ willRename(rec, D, actions(rec, S)[k].path)}

\* C24: a merge whose source holds a Rename of a path the destination has a
\* pending rename on does not return normally under any strategy, the one
\* with every allowance included: it stops at that Rename at the latest, and
\* stopping there it raises MergeConflictException for the path.
C24_RenameConflictHasNoOverride ==
    [][\A D \in Alive, S \in Alive, strategy \in ConflictStrategies :
          (/\ Merging(D, S, strategy)
           /\ D # S
           /\ RenameClashes(D, S) # {})
          => LET k == Least(RenameClashes(D, S)) IN
             /\ last'.res # "ok"
             /\ last'.at \in 1..k
             /\ last'.at = k =>
                   /\ last'.res = "MergeConflict"
                   /\ last'.path = actions(rec, S)[k].path]_vars
C24_Witness ==
    /\ last.op = "merge" /\ last.strategy = OverwriteAll /\ last.res = "MergeConflict"
    /\ last.at = 2
    /\ actions(rec, last.other)[2].kind = "r"
    /\ willRename(rec, last.t, last.path)
    /\ Len(rec[last.t]) = 2

\* record r is what replaying action a appends: the action's paths and
\* content, as the action's kind or, for a Create, as an Overwrite
Effect(r, a) ==
    /\ r.path = a.path /\ r.to = a.to /\ r.content = a.content
    /\ \/ a.kind = "c" /\ r.kind \in {"create", "overwrite"}
       \/ a.kind = "o" /\ r.kind = "overwrite"
       \/ a.kind = "r" /\ r.kind = "rename"
       \/ a.kind = "d" /\ r.kind = "delete"

\* C25: when a merge raises MergeConflictException at the k-th source action,
\* the destination's log is its log before the merge followed by one record
\* for each of the actions 1..k-1, in order, and nothing of the actions k..n;
\* no other tree's log has changed.
C25_MergeAbortsWithoutRollback ==
    [][\A D \in Alive, S \in Alive, strategy \in ConflictStrategies :
          (/\ Merging(D, S, strategy)
           /\ D # S
           /\ last'.res = "MergeConflict")
          => LET k == last'.at
                 acts == actions(rec, S)
                 n == Len(rec[D]) IN
             /\ k \in 1..Len(acts)
             /\ Len(rec'[D]) = n + (k - 1)
             /\ SubSeq(rec'[D], 1, n) = rec[D]
             /\ \A j \in 1..(k - 1) : Effect(rec'[D][n + j], acts[j])
             /\ \A u \in Trees \ {D} : rec'[u] = rec[u]]_vars
C25_Witness ==
    /\ last.op = "merge" /\ last.res = "MergeConflict"
    /\ last.at = 2
    /\ Len(rec[last.other]) = 2
    /\ Len(rec[last.t]) = 2
    /\ Effect(rec[last.t][2], actions(rec, last.other)[1])
    /\ rec[last.t][2].path # last.path

\* C26: merge changes the destination only: whether it returns normally or
\* raises, every other tree, the source included, has the same log, the same
\* actions and the same read(p) and exists(p) of every path p as before.
C26_MergeMutatesDestinationOnly ==
    [][\A D \in Alive, S \in Alive, strategy \in MergeStrategies :
          Merging(D, S, strategy) =>
              \A u \in Alive \ {D} :
                  /\ rec'[u] = rec[u]
                  /\ actions(rec', u) = actions(rec, u)
                  /\ View(rec', u) = View(rec, u)]_vars

\* the actions of tree S whose record does not stem from a mutation of tree T
Foreign(S, T) ==
    LET acts == actions(rec, S)
        kept == SelectSeq([k \in 1..Len(acts) |-> k], LAMBDA k : origin[S][k] # T)
    IN [i \in 1..Len(kept) |-> acts[kept[i]]]

\* C27: T.merge(S) replays the source's actions without those whose record
\* stems from a mutation of T itself: it ends as the replay of the others
\* alone ends, with the same log of T, and appends no record that stems from
\* T; T.merge(T) returns normally and changes nothing.
C27_OwnHistorySkipped ==
    [][\A T \in Alive, S \in Alive, strategy \in MergeStrategies :
          Merging(T, S, strategy) =>
              IF T = S THEN last'.res = "ok" /\ rec' = rec
              ELSE LET others == MergeFrom(rec, T, Foreign(S, T), 1, strategy) IN
                   /\ last'.res = others.err
                   /\ rec'[T] = others.rc[T]
                   /\ \A i \in (Len(rec[T]) + 1)..Len(rec'[T]) : origin'[T][i] # T]_vars

\* C28: every action a tree exports carries the id of the tree whose mutation
\* its record stems from: in P.actions after P.merge(B), the actions replayed
\* from B's mutations carry B's id and those of P's own mutations P's id.
C28_ActionsCarryOriginId ==
    \A t \in Alive :
        \A i \in 1..Len(actions(rec, t)) : actions(rec, t)[i].id = id[origin[t][i]]

\* C29: commitUpdate of a recorder that beginUpdate returned, when the
\* recorder's path resolves to a file, returns normally whatever happened to
\* the content since beginUpdate, and appends one Overwrite record whose
\* content is apply(the content read at the commit); so a commit that follows
\* another commit on the same file applies to the output of the first.
C29_CommitAppliesToCurrentContent ==
    [][(last'.op = "commitUpdate" /\ recorder.base /\ exists(rec, 1, recorder.path)) =>
          LET current == FileAt(rec, 1, recorder.path, Len(rec[1])) IN
          /\ last'.res = "ok"
          /\ rec'[1] = Append(rec[1], OverwriteRec(recorder.path, apply(recorder.patches, current)))
          /\ read(rec', 1, recorder.path) = apply(recorder.patches, current)]_vars

\* C30: get(path) raises PathIsDirectory exactly when the path is a directory
\* and returns null exactly when nothing is at the path; getDir(path) raises
\* PathIsFile exactly when the path is a file; neither appends a record nor
\* changes read(p) or exists(p) of any path p.
C30_GetAndGetDirOutcomes ==
    [][/\ last'.op = "get" =>
             /\ last'.res = "PathIsDirectory" <=> CordIsDirectory(rec, 1, last'.path)
             /\ last'.res = "null" <=> ~CordExists(rec, 1, last'.path)
             /\ rec' = rec /\ View(rec', 1) = View(rec, 1)
       /\ last'.op = "getDir" =>
             /\ last'.res = "PathIsFile" <=> CordIsFile(rec, 1, last'.path)
             /\ rec' = rec /\ View(rec', 1) = View(rec, 1)]_vars

\* the names of the files, and of the directories, directly in a directory
ChildFiles(rc, t, d) == {p[Len(p)] : p \in {q \in Paths : dirname(q) = d /\ exists(rc, t, q)}}
ChildDirs(rc, t, d) ==
    {p[Len(d) + 1] : p \in {q \in Paths : IsPrefix(d, q) /\ Len(q) > Len(d) + 1
                                            /\ exists(rc, t, q)}}
Range(s) == {s[i] : i \in 1..Len(s)}
NoRepeat(s) == \A i, j \in 1..Len(s) : s[i] = s[j] => i = j

\* C31: subfiles and subdirs, read on a directory entry obtained at any time
\* before, list each file and each directory that is now directly in the
\* entry's directory once and nothing else, and no name is in both lists.
C31_EntryListsAreCurrent ==
    /\ [][/\ last'.op = "subfiles" =>
                /\ Range(last'.visited) = ChildFiles(rec, 1, last'.path)
                /\ NoRepeat(last'.visited)
          /\ last'.op = "subdirs" =>
                /\ Range(last'.visited) = ChildDirs(rec, 1, last'.path)
                /\ NoRepeat(last'.visited)]_vars
    /\ [](\A entry \in dirCache[1] :
             Range(subfiles(rec, 1, entry)) \cap Range(subdirs(rec, 1, entry)) = {})

\* a path and the directories above it, up to the root
Chain(p) == {SubSeq(p, 1, k) : k \in 0..Len(p)}
\* the paths the record a mutation has just appended names
Affected(rc, t) ==
    LET r == rc[t][Len(rc[t])] IN
    IF r.kind = "rename" THEN {r.path, r.to} ELSE {r.path}

\* C32: after every create, overwrite, delete or rename that returns
\* normally, the directory cache holds no entry for the paths the call names
\* nor for a directory above them, so that the next getDir builds a new one.
C32_MutationDropsCachedEntries ==
    [][(last'.op \in StructuralOps /\ last'.res = "ok") =>
          \A p \in Affected(rec', 1) : Chain(p) \cap dirCache'[1] = {}]_vars

\* C33: a visit with a visitor that never throws returns normally, having
\* called the visitor once for every path that is a file now (created and
\* renamed-to files included) and for no other path (not for a file deleted
\* or renamed away).
C33_VisitCoversFilesOnce ==
    (last.op = "visit" /\ last.visitor = NoVisitor) =>
        /\ last.res = "ok"
        /\ Range(last.visited) = {p \in Paths : exists(rec, 1, p)}
        /\ NoRepeat(last.visited)

\* C34: a tree constructed later, directly or by branch(), has a greater id
\* than every tree constructed before it, so no two trees share an id; and
\* no call changes the id of a tree.
C34_TreeIdsUnique ==
    /\ [](\A t \in Alive, u \in Alive : t < u => id[t] < id[u])
    /\ [][\A t \in Alive : id'[t] = id[t]]_vars
C34_Witness ==
    /\ uniqueId = MaxTrees
    /\ back[2] = 0
    /\ last.op = "branch" /\ last.t = 2 /\ last.other = 3
    /\ rec[2] # <<>>

====
